---- MODULE Spec2Model ----
(***************************************************************************)
(* streamingconfig: a versioned configuration repository (WatchedRepo) on  *)
(* top of a MongoDB collection and its change stream.                      *)
(*                                                                         *)
(* The collection holds BSON documents keyed by _id = version.  Every      *)
(* WatchedRepo instance owns a cache slot (cfg, cfgWithDefaults), a Start  *)
(* call and a background goroutine iterating the change stream.  Caller    *)
(* threads run UpdateConfig against the collection.                        *)
(***************************************************************************)
EXTENDS Integers, Sequences, FiniteSets, TLC

\* ---------------------------------------------------------------- bounds

\* Highest version the collection reaches: UpdateConfig is not called once
\* the collection holds that many documents.
MaxVersion == 2

\* Most events a change stream holds undelivered when a client outside the
\* repository changes the collection.
MaxPending == 2

\* ------------------------------------------------------------ parameters

\* Repository instances (processes sharing the collection).
Inst == {1, 2}
\* A repository instance of a later release of the application: its
\* configuration type is appConfigV1.  It reads only.
V1Inst == {3}
\* All repository instances.
Repos == Inst \cup V1Inst
\* Caller threads that invoke UpdateConfig.
Callers == {1, 2, 3}

Nil == [nil |-> TRUE]

ErrNil == "nil"
ErrNotStarted == "ErrNotStarted"
ErrConfigurationNotFound == "ErrConfigurationNotFound"
ErrConcurrentUpdate == "ErrConcurrentUpdate"
\* the error of appConfigV0.validate
ErrValidation == "duration must be greater than zero"
\* any I/O failure reported by the mongo driver
ErrStorage == "storage error"
\* json.Marshal's failure inside deepCopy
ErrMarshal == "json: error calling MarshalJSON"
\* a document that does not decode into Versioned[T]
ErrDecode == "failed to decode config"

\* ------------------------------------------------------------ data model

\* time.Time: whole milliseconds since the zero time plus a sub-millisecond
\* part (0 = none).
ZeroTime == [ms |-> 0, sub |-> 0]

\* The values nowFunc may return (time.Now().UTC() by default, injectable).
NowTimes == {[ms |-> 1, sub |-> 0], [ms |-> 1, sub |-> 1]}

\* appConfigV0 (the fields the repository's behaviour depends on).  time is
\* symbolic: "zero", "at" (an ordinary instant) or "y10000" (an instant whose
\* year exceeds 9999: BSON stores it, Time.MarshalJSON rejects it).
appConfigV0 == [name : {"", "n2"}, duration : {-1, 0, 1}, time : {"zero", "at", "y10000"}]

\* The zero value of appConfigV0.
ZeroConfig == [name |-> "", duration |-> 0, time |-> "zero"]

\* appConfigV1: it has no Duration and adds Age.
appConfigV1 == [name : {"", "n2"}, time : {"zero", "at", "y10000"}, age : {0}]

\* The zero value of appConfigV1.
ZeroConfigV1 == [name |-> "", time |-> "zero", age |-> 0]

\* The zero value of the configuration type of instance i.
ZeroConfigOf(i) == IF i \in V1Inst THEN ZeroConfigV1 ELSE ZeroConfig

\* reflect.TypeOf of a configuration value.
IsV1(c) == "age" \in DOMAIN c

\* The candidate configurations callers submit.
Candidates ==
    { [name |-> "",   duration |-> 1,  time |-> "at"],
      [name |-> "",   duration |-> -1, time |-> "at"],
      [name |-> "n2", duration |-> 1,  time |-> "y10000"] }

\* Versioned[T]
Versioned(v, by, at, c) ==
    [version |-> v, updatedBy |-> by, createdAt |-> at, config |-> c]

\* UpdateConfigCmd.By of each caller thread.
By(c) == CASE c = 1 -> "u1" [] c = 2 -> "u2" [] OTHER -> "u3"

\* The `default` struct tag of appConfigV0.Name.
DefaultName == "bobby"
\* The `default` struct tag of appConfigV1.Name.
DefaultNameV1 == "john"

\* ----------------------------------------------------- appConfigV0.Update

validate(a) == IF a.duration < 0 THEN ErrValidation ELSE ErrNil

\* The receiver takes every field of the input and is then validated.
\* Result: the receiver after the call and the error.
Update(recv, new) ==
    LET a == [recv EXCEPT !.name = new.name, !.duration = new.duration,
                          !.time = new.time]
    IN [recv |-> a, err |-> validate(a)]

\* ------------------------------------------------------- BSON conversions

\* A BSON datetime holds whole milliseconds.
bsonTime(t) == [ms |-> t.ms, sub |-> 0]

\* The document InsertOne writes for a Versioned value (bson tags of
\* Versioned, json tags of the config).
bsonMarshal(v) ==
    [_id |-> v.version, updated_by |-> v.updatedBy,
     created_at |-> bsonTime(v.createdAt),
     app_config |-> [name |-> v.config.name, duration |-> v.config.duration,
                     time |-> v.config.time]]

\* cursor.Decode into a Versioned value.
bsonDecode(d) ==
    Versioned(d._id, d.updated_by, d.created_at,
              [name |-> d.app_config.name, duration |-> d.app_config.duration,
               time |-> d.app_config.time])

\* An app_config that is no document of the configuration's fields (written
\* by a client outside the repository).
Garbage == [malformed |-> TRUE]

\* Decode succeeds on the document.
Decodable(d) == d.app_config # Garbage

\* cursor.Decode into a Versioned value of appConfigV1: the document's
\* duration has no field to go to, age is absent from the document.
bsonDecodeV1(d) ==
    Versioned(d._id, d.updated_by, d.created_at,
              [name |-> d.app_config.name, time |-> d.app_config.time,
               age |-> 0])

\* Decode on instance i: the target is that instance's Versioned[T].
Decode(i, d) == IF i \in V1Inst THEN bsonDecodeV1(d) ELSE bsonDecode(d)

\* ------------------------------------------------------- JSON round trip

\* The JSON object of a configuration and the value unmarshalled from it:
\* the fields of its type, by their json tags.
jsonConfig(c) ==
    IF IsV1(c) THEN [name |-> c.name, time |-> c.time, age |-> c.age]
    ELSE [name |-> c.name, duration |-> c.duration, time |-> c.time]

\* json.Marshal of a Versioned value: fails when a time.Time is outside the
\* years 0..9999.
jsonMarshal(v) ==
    IF v.config.time = "y10000"
    THEN [err |-> ErrMarshal, doc |-> Nil]
    ELSE [err |-> ErrNil,
          doc |-> [version |-> v.version, updated_by |-> v.updatedBy,
                   created_at |-> v.createdAt,
                   config |-> jsonConfig(v.config)]]

jsonUnmarshal(d) ==
    Versioned(d.version, d.updated_by, d.created_at, jsonConfig(d.config))

deepCopy(orig) ==
    LET b == jsonMarshal(orig)
    IN IF b.err # ErrNil
       THEN [val |-> Nil, err |-> b.err]
       ELSE [val |-> jsonUnmarshal(b.doc), err |-> ErrNil]

\* Mutant: every configuration type gets the default of appConfigV0.
defaultsSet_OneDefault(v) ==
    IF v.config.name = ""
    THEN [v EXCEPT !.config.name = DefaultName]
    ELSE v

\* Mutant: the default is written over a name that is set.
defaultsSet_Overwrite(v) ==
    [v EXCEPT !.config.name =
                 IF IsV1(v.config) THEN DefaultNameV1 ELSE DefaultName]

\* defaults.Set on a Versioned value: only the Name field of the two
\* configuration types declares a default; it is applied when the field holds
\* its zero value.
defaultsSet(v) ==
    IF v.config.name = ""
    THEN [v EXCEPT !.config.name =
                      IF IsV1(v.config) THEN DefaultNameV1 ELSE DefaultName]
    ELSE v

\* Mutant: the copy is returned without defaults.Set.
copyAndSetDefaults_NoDefaults(orig) == deepCopy(orig)

copyAndSetDefaults(orig) ==
    LET cp == deepCopy(orig)
    IN IF cp.err # ErrNil
       THEN [val |-> Nil, err |-> cp.err]
       ELSE [val |-> defaultsSet(cp.val), err |-> ErrNil]

\* --------------------------------------------------------------- state

VARIABLES
    configs,          \* the mongo collection: a set of BSON documents
    stream,           \* per instance: the change stream's undelivered events
    watching,         \* per instance: the change stream is open
    ctxDone,          \* per instance: the context passed to Start is cancelled
    doneClosed,       \* per instance: the channel returned by Start is closed
    startPc,          \* per instance: position of the Start call
    latest,           \* per instance: Start's local `latest`
    cfg,              \* per instance: WatchedRepo.cfg
    cfgWithDefaults,  \* per instance: WatchedRepo.cfgWithDefaults
    started,          \* per instance: WatchedRepo.started
    subPc,            \* per instance: position of the iterateChangeStream goroutine
    subTmp,           \* per instance: the goroutine's pending copyAndSetDefaults result
    startTmp,         \* per instance: Start's pending copyAndSetDefaults result
    sawInsert,        \* per instance: the goroutine has handled an insert event
    uc,               \* per caller: the UpdateConfig call in progress / last returned
    succLog           \* versions returned by the successful UpdateConfig calls, in order

vars == <<configs, stream, watching, ctxDone, doneClosed, startPc, latest, cfg,
          cfgWithDefaults, started, subPc, subTmp, startTmp, sawInsert, uc,
          succLog>>

instVars == <<watching, ctxDone, doneClosed, startPc, latest, cfg,
              cfgWithDefaults, started, subPc, subTmp, startTmp, sawInsert>>

\* A caller thread with no call made yet.  read: the version getLatest returned
\* (0: none); recv, input: the arguments Config.Update was invoked with;
\* verr: its error; new: the Versioned value handed to createConfig;
\* outcome: what became of the insert; ret: what UpdateConfig returned.
IdleCall ==
    [pc |-> "idle", read |-> 0, recv |-> Nil, input |-> Nil, verr |-> ErrNil,
     new |-> Nil, outcome |-> "none", ret |-> [rec |-> Nil, err |-> ErrNil],
     returned |-> FALSE]

Init ==
    /\ configs = {}
    /\ stream = [i \in Repos |-> <<>>]
    /\ watching = [i \in Repos |-> FALSE]
    /\ ctxDone = [i \in Repos |-> FALSE]
    /\ doneClosed = [i \in Repos |-> FALSE]
    /\ startPc = [i \in Repos |-> "new"]
    /\ latest = [i \in Repos |-> Nil]
    /\ cfg = [i \in Repos |-> Nil]
    /\ cfgWithDefaults = [i \in Repos |-> Nil]
    /\ started = [i \in Repos |-> FALSE]
    /\ subPc = [i \in Repos |-> "off"]
    /\ subTmp = [i \in Repos |-> Nil]
    /\ startTmp = [i \in Repos |-> Nil]
    /\ sawInsert = [i \in Repos |-> FALSE]
    /\ uc = [c \in Callers |-> IdleCall]
    /\ succLog = <<>>

\* ------------------------------------------------------ store operations

\* The documents' keys.
Versions == {d._id : d \in configs}

\* getLatest: Find with sort _id descending, limit 1.
getLatest(i) ==
    IF configs = {}
    THEN [val |-> Nil, err |-> ErrConfigurationNotFound]
    ELSE LET top == CHOOSE d \in configs : \A e \in configs : e._id <= d._id
         IN IF ~Decodable(top)
            THEN [val |-> Nil, err |-> ErrDecode]
            ELSE [val |-> Decode(i, top), err |-> ErrNil]

\* InsertOne's verdict on a document: the unique index on _id.
IsDuplicateKey(doc) == \E d \in configs : d._id = doc._id

\* The change event every open change stream receives for an insert.
InsertEvent(doc) == [operationType |-> "insert", fullDocument |-> doc]

Deliver(doc) ==
    [i \in Repos |-> IF watching[i] THEN Append(stream[i], InsertEvent(doc))
                    ELSE stream[i]]

\* Mutant: a duplicate key is not reported.
createConfig_NoUnique(doc) == ErrNil

\* createConfig's result for a document that reaches the server.
createConfig(doc) == IF IsDuplicateKey(doc) THEN ErrConcurrentUpdate ELSE ErrNil

\* ------------------------------------------------------------ UpdateConfig

Return(call, rec, err) ==
    [call EXCEPT !.pc = "idle", !.ret = [rec |-> rec, err |-> err],
                 !.returned = TRUE]

\* The call finds the repository not started.
UpdateConfigNotStarted(c, i) ==
    /\ uc[c].pc = "idle"
    /\ ~started[i]
    /\ uc' = [uc EXCEPT ![c] = Return(IdleCall, Nil, ErrNotStarted)]
    /\ UNCHANGED <<configs, stream, instVars, succLog>>

\* getLatest fails with a driver error.
UpdateConfigGetLatestFails(c, i) ==
    /\ uc[c].pc = "idle"
    /\ started[i]
    /\ uc' = [uc EXCEPT ![c] = Return(IdleCall, Nil, ErrStorage)]
    /\ UNCHANGED <<configs, stream, instVars, succLog>>

\* Mutant: the error of Config.Update is dropped.
Validated_IgnoreErr(c, read, recv, input, now) ==
    LET r == Update(recv, input)
    IN [IdleCall EXCEPT !.read = read, !.recv = recv, !.input = input,
                        !.verr = r.err, !.pc = "insert",
                        !.new = Versioned(read + 1, By(c), now, r.recv)]

\* Mutant: the new version skips a number.
Validated_SkipVersion(c, read, recv, input, now) ==
    LET r == Update(recv, input)
        e == [IdleCall EXCEPT !.read = read, !.recv = recv, !.input = input,
                              !.verr = r.err]
    IN IF r.err # ErrNil
       THEN [e EXCEPT !.ret = [rec |-> Nil, err |-> r.err], !.returned = TRUE]
       ELSE [e EXCEPT !.pc = "insert",
                      !.new = Versioned(read + 2, By(c), now, r.recv)]

\* The call after Config.Update(recv, input) on the path that read version
\* `read`: a validation error is returned, otherwise the new version is
\* built for createConfig.
Validated(c, read, recv, input, now) ==
    LET r == Update(recv, input)
        e == [IdleCall EXCEPT !.read = read, !.recv = recv, !.input = input,
                              !.verr = r.err]
    IN IF r.err # ErrNil
       THEN Return(e, Nil, r.err)
       ELSE [e EXCEPT !.pc = "insert",
                      !.new = Versioned(read + 1, By(c), now, r.recv)]

\* Mutant: the first candidate is merged into a zero configuration.
UpdateConfigFirst_ZeroRecv(c, i, cand, now) ==
    /\ uc[c].pc = "idle"
    /\ started[i]
    /\ getLatest(i).err = ErrConfigurationNotFound
    /\ uc' = [uc EXCEPT ![c] =
                [IdleCall EXCEPT !.recv = ZeroConfig, !.input = cand,
                                 !.verr = Update(ZeroConfig, cand).err,
                                 !.ret = [rec |-> Nil, err |-> Update(ZeroConfig, cand).err],
                                 !.pc = IF Update(ZeroConfig, cand).err = ErrNil
                                        THEN "insert" ELSE "idle",
                                 !.returned = Update(ZeroConfig, cand).err # ErrNil,
                                 !.new = IF Update(ZeroConfig, cand).err = ErrNil
                                         THEN Versioned(1, By(c), now,
                                                        Update(ZeroConfig, cand).recv)
                                         ELSE Nil]]
    /\ UNCHANGED <<configs, stream, instVars, succLog>>

\* Mutant: the started guard of UpdateConfig is missing.
UpdateConfigFirst_NoGuard(c, i, cand, now) ==
    /\ uc[c].pc = "idle"
    /\ getLatest(i).err = ErrConfigurationNotFound
    /\ uc' = [uc EXCEPT ![c] = Validated(c, 0, cand, cand, now)]
    /\ UNCHANGED <<configs, stream, instVars, succLog>>

\* getLatest finds no document: the candidate is validated against itself and
\* becomes version 1.
UpdateConfigFirst(c, i, cand, now) ==
    /\ uc[c].pc = "idle"
    /\ started[i]
    /\ getLatest(i).err = ErrConfigurationNotFound
    /\ uc' = [uc EXCEPT ![c] = Validated(c, 0, cand, cand, now)]
    /\ UNCHANGED <<configs, stream, instVars, succLog>>

\* Mutant: the receiver of Config.Update is the defaults overlay of the
\* latest document.
UpdateConfigNext_OverlaidRecv(c, i, cand, now) ==
    /\ uc[c].pc = "idle"
    /\ started[i]
    /\ getLatest(i).err = ErrNil
    /\ uc' = [uc EXCEPT ![c] =
                Validated(c, getLatest(i).val.version,
                          defaultsSet(getLatest(i).val).config, cand, now)]
    /\ UNCHANGED <<configs, stream, instVars, succLog>>

\* getLatest finds the latest document: the candidate is merged into its
\* configuration and the result becomes the next version.
\* Mutant: a call made after ErrConcurrentUpdate reuses the version of the
\* caller's previous read instead of the one just read.
UpdateConfigNext_StaleRead(c, i, cand, now) ==
    /\ uc[c].pc = "idle"
    /\ started[i]
    /\ getLatest(i).err = ErrNil
    /\ uc' = [uc EXCEPT ![c] =
                Validated(c,
                          IF uc[c].outcome = "dup" THEN uc[c].read
                          ELSE getLatest(i).val.version,
                          getLatest(i).val.config, cand, now)]
    /\ UNCHANGED <<configs, stream, instVars, succLog>>

UpdateConfigNext(c, i, cand, now) ==
    /\ uc[c].pc = "idle"
    /\ started[i]
    /\ getLatest(i).err = ErrNil
    /\ uc' = [uc EXCEPT ![c] =
                Validated(c, getLatest(i).val.version, getLatest(i).val.config, cand, now)]
    /\ UNCHANGED <<configs, stream, instVars, succLog>>

\* Mutant: the insert replaces the documents of the collection.
UpdateConfigInsert_Replace(c) ==
    /\ uc[c].pc = "insert"
    /\ LET new == uc[c].new
           doc == bsonMarshal(new)
           toRet == copyAndSetDefaults(new)
       IN /\ configs' = {doc}
          /\ stream' = Deliver(doc)
          /\ uc' = [uc EXCEPT ![c] =
                      [Return(uc[c], toRet.val, toRet.err) EXCEPT !.outcome = "ok"]]
          /\ succLog' = IF toRet.err = ErrNil
                        THEN Append(succLog, toRet.val.version)
                        ELSE succLog
    /\ UNCHANGED instVars

\* Mutant: on a duplicate key the call reads the latest document again and
\* retries.
UpdateConfigInsert_Retry(c) ==
    /\ uc[c].pc = "insert"
    /\ LET new == uc[c].new
           doc == bsonMarshal(new)
           err == createConfig(doc)
           toRet == copyAndSetDefaults(new)
       IN IF err # ErrNil
          THEN /\ uc' = [uc EXCEPT ![c] =
                           Validated(c, getLatest(1).val.version, getLatest(1).val.config,
                                     uc[c].input, new.createdAt)]
               /\ UNCHANGED <<configs, stream, succLog>>
          ELSE /\ configs' = configs \cup {doc}
               /\ stream' = Deliver(doc)
               /\ uc' = [uc EXCEPT ![c] =
                           [Return(uc[c], toRet.val, toRet.err) EXCEPT !.outcome = "ok"]]
               /\ succLog' = IF toRet.err = ErrNil
                             THEN Append(succLog, toRet.val.version)
                             ELSE succLog
    /\ UNCHANGED instVars

\* Mutant: a successful insert also installs the new version in the cache of
\* the caller's instance.
UpdateConfigInsert_WritesCache(c) ==
    /\ uc[c].pc = "insert"
    /\ LET new == uc[c].new
           doc == bsonMarshal(new)
           err == createConfig(doc)
           toRet == copyAndSetDefaults(new)
       IN IF err # ErrNil
          THEN /\ uc' = [uc EXCEPT ![c] = [Return(uc[c], Nil, err) EXCEPT !.outcome = "dup"]]
               /\ UNCHANGED <<configs, stream, succLog, cfg, cfgWithDefaults>>
          ELSE /\ configs' = configs \cup {doc}
               /\ stream' = Deliver(doc)
               /\ uc' = [uc EXCEPT ![c] =
                           [Return(uc[c], toRet.val, toRet.err) EXCEPT !.outcome = "ok"]]
               /\ succLog' = IF toRet.err = ErrNil
                             THEN Append(succLog, toRet.val.version)
                             ELSE succLog
               /\ cfg' = [cfg EXCEPT ![c] = new]
               /\ cfgWithDefaults' = [cfgWithDefaults EXCEPT ![c] = toRet.val]
    /\ UNCHANGED <<watching, ctxDone, doneClosed, startPc, latest, started,
                   subPc, subTmp, startTmp, sawInsert>>

\* createConfig reaches the server; on success the defaults overlay of the
\* new version is returned.
UpdateConfigInsert(c) ==
    /\ uc[c].pc = "insert"
    /\ LET new == uc[c].new
           doc == bsonMarshal(new)
           err == createConfig(doc)
           toRet == copyAndSetDefaults(new)
       IN IF err # ErrNil
          THEN /\ uc' = [uc EXCEPT ![c] = [Return(uc[c], Nil, err) EXCEPT !.outcome = "dup"]]
               /\ UNCHANGED <<configs, stream, succLog>>
          ELSE /\ configs' = configs \cup {doc}
               /\ stream' = Deliver(doc)
               /\ uc' = [uc EXCEPT ![c] =
                           [Return(uc[c], toRet.val, toRet.err) EXCEPT !.outcome = "ok"]]
               /\ succLog' = IF toRet.err = ErrNil
                             THEN Append(succLog, toRet.val.version)
                             ELSE succLog
    /\ UNCHANGED instVars

\* InsertOne fails with a driver error other than a duplicate key.
UpdateConfigInsertFails(c) ==
    /\ uc[c].pc = "insert"
    /\ uc' = [uc EXCEPT ![c] = [Return(uc[c], Nil, ErrStorage) EXCEPT !.outcome = "ioerr"]]
    /\ UNCHANGED <<configs, stream, instVars, succLog>>

\* ------------------------------------------- clients outside the repository

\* The operations another client of the database may perform on a document
\* of the collection.
ExternalOps == {"update", "replace", "delete"}

\* The document an update or a replace leaves behind: the author is
\* overwritten, and a malformed replacement carries no usable app_config.
Rewritten(d, bad) ==
    IF bad THEN [d EXCEPT !.updated_by = "ext", !.app_config = Garbage]
    ELSE [d EXCEPT !.updated_by = "ext"]

\* The change event of such an operation: only a replace carries the full
\* document.
ExternalEvent(op, d, bad) ==
    [operationType |-> op,
     fullDocument |-> IF op = "replace" THEN Rewritten(d, bad) ELSE Nil]

\* Every open change stream receives the event.
Broadcast(ev) ==
    [i \in Repos |-> IF watching[i] THEN Append(stream[i], ev) ELSE stream[i]]

\* Another client updates or replaces document d, or deletes it once a later
\* version has superseded it.
ExternalChange(op, d, bad) ==
    /\ d \in configs
    /\ bad => op = "replace"
    /\ op = "delete" => \E e \in configs : e._id > d._id
    /\ \A i \in Repos : Len(stream[i]) < MaxPending
    /\ configs' = IF op = "delete" THEN configs \ {d}
                  ELSE (configs \ {d}) \cup {Rewritten(d, bad)}
    /\ stream' = Broadcast(ExternalEvent(op, d, bad))
    /\ UNCHANGED <<instVars, uc, succLog>>

\* ------------------------------------------------------------------ Start

\* createIndexes fails.
StartCreateIndexesFails(i) ==
    /\ startPc[i] = "new"
    /\ startPc' = [startPc EXCEPT ![i] = "failedIndexes"]
    /\ UNCHANGED <<configs, stream, watching, ctxDone, doneClosed, latest, cfg,
                   cfgWithDefaults, started, subPc, subTmp, startTmp, sawInsert,
                   uc, succLog>>

\* watchChanges cannot open the change stream.
StartWatchFails(i) ==
    /\ startPc[i] = "new"
    /\ startPc' = [startPc EXCEPT ![i] = "failedWatch"]
    /\ UNCHANGED <<configs, stream, watching, ctxDone, doneClosed, latest, cfg,
                   cfgWithDefaults, started, subPc, subTmp, startTmp, sawInsert,
                   uc, succLog>>

\* Mutant: the goroutine is launched on a stream that is not open yet.
watchChanges_NotOpen(i) ==
    /\ startPc[i] = "new"
    /\ ~ctxDone[i]
    /\ startPc' = [startPc EXCEPT ![i] = "watching"]
    /\ subPc' = [subPc EXCEPT ![i] = "next"]
    /\ UNCHANGED <<configs, stream, watching, ctxDone, doneClosed, latest, cfg,
                   cfgWithDefaults, started, subTmp, startTmp, sawInsert, uc,
                   succLog>>

\* createIndexes and watchChanges succeed: the change stream is open and the
\* goroutine iterating it is launched.
watchChanges(i) ==
    /\ startPc[i] = "new"
    /\ ~ctxDone[i]
    /\ startPc' = [startPc EXCEPT ![i] = "watching"]
    /\ watching' = [watching EXCEPT ![i] = TRUE]
    /\ subPc' = [subPc EXCEPT ![i] = "next"]
    /\ UNCHANGED <<configs, stream, ctxDone, doneClosed, latest, cfg,
                   cfgWithDefaults, started, subTmp, startTmp, sawInsert, uc,
                   succLog>>

\* Start's seed read.
StartGetLatest(i) ==
    /\ startPc[i] = "watching"
    /\ ~ctxDone[i]
    /\ getLatest(i).err \in {ErrNil, ErrConfigurationNotFound}
    /\ latest' = [latest EXCEPT ![i] = getLatest(i).val]
    /\ startPc' = [startPc EXCEPT ![i] = "seeded"]
    /\ UNCHANGED <<configs, stream, watching, ctxDone, doneClosed, cfg,
                   cfgWithDefaults, started, subPc, subTmp, startTmp, sawInsert,
                   uc, succLog>>

\* Mutant: a failed seed read is ignored and the repository counts as started.
StartGetLatestFails_Started(i) ==
    /\ startPc[i] = "watching"
    /\ startPc' = [startPc EXCEPT ![i] = "failedSeed"]
    /\ started' = [started EXCEPT ![i] = TRUE]
    /\ UNCHANGED <<configs, stream, watching, ctxDone, doneClosed, latest, cfg,
                   cfgWithDefaults, subPc, subTmp, startTmp, sawInsert, uc,
                   succLog>>

\* The seed read fails for a reason other than not-found.
StartGetLatestFails(i) ==
    /\ startPc[i] = "watching"
    /\ startPc' = [startPc EXCEPT ![i] = "failedSeed"]
    /\ UNCHANGED <<configs, stream, watching, ctxDone, doneClosed, latest, cfg,
                   cfgWithDefaults, started, subPc, subTmp, startTmp, sawInsert,
                   uc, succLog>>

\* s.cfg = latest, or a Versioned around the zero configuration.
StartSetCfg(i) ==
    /\ startPc[i] = "seeded"
    /\ cfg' = [cfg EXCEPT ![i] =
                 IF latest[i] = Nil THEN Versioned(0, "", ZeroTime, ZeroConfigOf(i))
                 ELSE latest[i]]
    /\ startPc' = [startPc EXCEPT ![i] = "cfgSet"]
    /\ UNCHANGED <<configs, stream, watching, ctxDone, doneClosed, latest,
                   cfgWithDefaults, started, subPc, subTmp, startTmp, sawInsert,
                   uc, succLog>>

\* copyAndSetDefaults(s.cfg) is evaluated.
StartOverlay(i) ==
    /\ startPc[i] = "cfgSet"
    /\ startTmp' = [startTmp EXCEPT ![i] = copyAndSetDefaults(cfg[i])]
    /\ startPc' = [startPc EXCEPT ![i] = "overlaid"]
    /\ UNCHANGED <<configs, stream, watching, ctxDone, doneClosed, latest, cfg,
                   cfgWithDefaults, started, subPc, subTmp, sawInsert, uc, succLog>>

\* Its result is assigned to s.cfgWithDefaults; without error the repository
\* is started.
StartFinish(i) ==
    /\ startPc[i] = "overlaid"
    /\ cfgWithDefaults' = [cfgWithDefaults EXCEPT ![i] = startTmp[i].val]
    /\ started' = [started EXCEPT ![i] = (startTmp[i].err = ErrNil)]
    /\ startPc' = [startPc EXCEPT ![i] =
                     IF startTmp[i].err = ErrNil THEN "done" ELSE "failedDefaults"]
    /\ startTmp' = [startTmp EXCEPT ![i] = Nil]
    /\ UNCHANGED <<configs, stream, watching, ctxDone, doneClosed, latest, cfg,
                   subPc, subTmp, sawInsert, uc, succLog>>

\* The error of the change stream that could not be opened.
ErrWatch == "error watching configs"

\* What the Start call returned: the done channel (TRUE: the channel, Nil:
\* none) and the error.  Defined once the call is over.
StartReturned(i) ==
    CASE startPc[i] = "done"           -> [done |-> TRUE, err |-> ErrNil]
      [] startPc[i] = "failedIndexes"  -> [done |-> Nil,  err |-> ErrStorage]
      [] startPc[i] = "failedWatch"    -> [done |-> Nil,  err |-> ErrWatch]
      [] startPc[i] = "failedSeed"     -> [done |-> Nil,  err |-> ErrStorage]
      [] startPc[i] = "failedDefaults" -> [done |-> Nil,  err |-> ErrMarshal]

\* ---------------------------------------------------- iterateChangeStream

\* cs.Next and cs.Decode yield an insert event: s.cfg = dto.FullDocument.
SubInsert(i) ==
    /\ subPc[i] = "next"
    /\ stream[i] # <<>>
    /\ Head(stream[i]).operationType = "insert"
    /\ cfg' = [cfg EXCEPT ![i] = Decode(i, Head(stream[i]).fullDocument)]
    /\ stream' = [stream EXCEPT ![i] = Tail(stream[i])]
    /\ sawInsert' = [sawInsert EXCEPT ![i] = TRUE]
    /\ subPc' = [subPc EXCEPT ![i] = "overlay"]
    /\ UNCHANGED <<configs, watching, ctxDone, doneClosed, startPc, latest,
                   cfgWithDefaults, started, subTmp, startTmp, uc, succLog>>

\* Mutant: an event that is no insert ends the loop.
SubOther_Stops(i) ==
    /\ subPc[i] = "next"
    /\ stream[i] # <<>>
    /\ Head(stream[i]).operationType # "insert"
    /\ stream' = [stream EXCEPT ![i] = <<>>]
    /\ subPc' = [subPc EXCEPT ![i] = "stopped"]
    /\ watching' = [watching EXCEPT ![i] = FALSE]
    /\ doneClosed' = [doneClosed EXCEPT ![i] = TRUE]
    /\ UNCHANGED <<configs, ctxDone, startPc, latest, cfg, cfgWithDefaults,
                   started, subTmp, startTmp, sawInsert, uc, succLog>>

\* cs.Decode yields an event whose operation type is not insert: it is
\* logged and the loop continues.
SubOther(i) ==
    /\ subPc[i] = "next"
    /\ stream[i] # <<>>
    /\ Head(stream[i]).operationType # "insert"
    /\ IF Head(stream[i]).fullDocument = Nil THEN TRUE
       ELSE Decodable(Head(stream[i]).fullDocument)
    /\ stream' = [stream EXCEPT ![i] = Tail(stream[i])]
    /\ UNCHANGED <<configs, instVars, uc, succLog>>

\* cs.Decode fails on the event (its full document does not decode into
\* Versioned[T]): the error is logged and the loop continues.
SubDecodeFails(i) ==
    /\ subPc[i] = "next"
    /\ stream[i] # <<>>
    /\ IF Head(stream[i]).fullDocument = Nil THEN FALSE
       ELSE ~Decodable(Head(stream[i]).fullDocument)
    /\ stream' = [stream EXCEPT ![i] = Tail(stream[i])]
    /\ UNCHANGED <<configs, instVars, uc, succLog>>

\* copyAndSetDefaults(s.cfg) is evaluated.
SubOverlay(i) ==
    /\ subPc[i] = "overlay"
    /\ subTmp' = [subTmp EXCEPT ![i] = copyAndSetDefaults(cfg[i])]
    /\ subPc' = [subPc EXCEPT ![i] = "assign"]
    /\ UNCHANGED <<configs, stream, watching, ctxDone, doneClosed, startPc,
                   latest, cfg, cfgWithDefaults, started, startTmp, sawInsert,
                   uc, succLog>>

\* Its result is assigned to s.cfgWithDefaults (an error is only logged).
SubAssign(i) ==
    /\ subPc[i] = "assign"
    /\ cfgWithDefaults' = [cfgWithDefaults EXCEPT ![i] = subTmp[i].val]
    /\ subTmp' = [subTmp EXCEPT ![i] = Nil]
    /\ subPc' = [subPc EXCEPT ![i] = "next"]
    /\ UNCHANGED <<configs, stream, watching, ctxDone, doneClosed, startPc,
                   latest, cfg, started, startTmp, sawInsert, uc, succLog>>

\* Mutant: the goroutine ends without closing the done channel.
SubStop_NoClose(i) ==
    /\ subPc[i] = "next"
    /\ ctxDone[i]
    /\ subPc' = [subPc EXCEPT ![i] = "stopped"]
    /\ watching' = [watching EXCEPT ![i] = FALSE]
    /\ stream' = [stream EXCEPT ![i] = <<>>]
    /\ UNCHANGED <<configs, ctxDone, doneClosed, startPc, latest, cfg,
                   cfgWithDefaults, started, subTmp, startTmp, sawInsert, uc,
                   succLog>>

\* cs.Next returns false after the cancellation: the stream is closed and the
\* done channel too.
SubStop(i) ==
    /\ subPc[i] = "next"
    /\ ctxDone[i]
    /\ subPc' = [subPc EXCEPT ![i] = "stopped"]
    /\ watching' = [watching EXCEPT ![i] = FALSE]
    /\ stream' = [stream EXCEPT ![i] = <<>>]
    /\ doneClosed' = [doneClosed EXCEPT ![i] = TRUE]
    /\ UNCHANGED <<configs, ctxDone, startPc, latest, cfg, cfgWithDefaults,
                   started, subTmp, startTmp, sawInsert, uc, succLog>>

\* cs.Next returns false because the change stream reports an error while the
\* context is not cancelled: the loop ends the same way.
SubNextFails(i) ==
    /\ subPc[i] = "next"
    /\ ~ctxDone[i]
    /\ subPc' = [subPc EXCEPT ![i] = "stopped"]
    /\ watching' = [watching EXCEPT ![i] = FALSE]
    /\ stream' = [stream EXCEPT ![i] = <<>>]
    /\ doneClosed' = [doneClosed EXCEPT ![i] = TRUE]
    /\ UNCHANGED <<configs, ctxDone, startPc, latest, cfg, cfgWithDefaults,
                   started, subTmp, startTmp, sawInsert, uc, succLog>>

\* The owner cancels the context it passed to Start.
Cancel(i) ==
    /\ startPc[i] # "new"
    /\ watching[i]
    /\ ~ctxDone[i]
    /\ ctxDone' = [ctxDone EXCEPT ![i] = TRUE]
    /\ UNCHANGED <<configs, stream, watching, doneClosed, startPc, latest, cfg,
                   cfgWithDefaults, started, subPc, subTmp, startTmp, sawInsert,
                   uc, succLog>>

\* --------------------------------------------------------------- readers
\* The read operations change nothing: each is the value a caller gets in the
\* current state.

\* Mutant: the started guard is missing.
GetLatestVersion_NoGuard(i) == [rec |-> cfgWithDefaults[i], err |-> ErrNil]

GetLatestVersion(i) ==
    IF ~started[i] THEN [rec |-> Nil, err |-> ErrNotStarted]
    ELSE [rec |-> cfgWithDefaults[i], err |-> ErrNil]

\* GetConfig returns v.Config of GetLatestVersion's record; a nil record is
\* dereferenced.
GetConfig(i) ==
    LET v == GetLatestVersion(i)
    IN IF v.err # ErrNil THEN [val |-> Nil, err |-> v.err]
       ELSE IF v.rec = Nil THEN [val |-> Nil, err |-> "panic: nil pointer dereference"]
       ELSE [val |-> v.rec.config, err |-> ErrNil]

\* Mutant: ToVersion is taken inclusive.
findByVersion_Inclusive(from, to) == {d \in configs : d._id >= from /\ d._id <= to}

\* The filter of ListVersionedConfigs: _id >= FromVersion, _id < ToVersion.
findByVersion(from, to) == {d \in configs : d._id >= from /\ d._id < to}

\* The cursor of a Find sorted by _id ascending.
RECURSIVE sortById(_)
sortById(S) ==
    IF S = {} THEN <<>>
    ELSE LET m == CHOOSE d \in S : \A e \in S : d._id <= e._id
         IN <<m>> \o sortById(S \ {m})

\* Every document of the cursor is decoded and defaults.Set is applied to it.
ListVersionedConfigs(i, from, to) ==
    IF ~started[i] THEN [val |-> <<>>, err |-> ErrNotStarted]
    ELSE LET cur == sortById(findByVersion(from, to))
         IN [val |-> [k \in 1 .. Len(cur) |-> defaultsSet(Decode(i, cur[k]))],
             err |-> ErrNil]

\* time.Time.Before.
Before(a, b) == a.ms < b.ms \/ (a.ms = b.ms /\ a.sub < b.sub)

\* Mutant: To is taken inclusive.
findByDate_ToInclusive(from, to) ==
    {d \in configs : /\ ~Before(d.created_at, bsonTime(from))
                     /\ ~Before(bsonTime(to), d.created_at)}

\* The filter of ListVersionedConfigsByDate: created_at >= From,
\* created_at < To, the two bounds encoded as BSON datetimes.
findByDate(from, to) ==
    {d \in configs : /\ ~Before(d.created_at, bsonTime(from))
                     /\ Before(d.created_at, bsonTime(to))}

\* The cursors a Find sorted by created_at ascending may yield: the order of
\* documents with equal created_at is not determined.
sortByCreatedAt(S) ==
    {q \in [1 .. Cardinality(S) -> S] :
        /\ \A j, k \in 1 .. Cardinality(S) : j # k => q[j] # q[k]
        /\ \A j, k \in 1 .. Cardinality(S) :
              j < k => ~Before(q[k].created_at, q[j].created_at)}

\* The results ListVersionedConfigsByDate may return.
ListVersionedConfigsByDate(i, from, to) ==
    IF ~started[i] THEN {[val |-> <<>>, err |-> ErrNotStarted]}
    ELSE {[val |-> [k \in 1 .. Len(cur) |-> defaultsSet(Decode(i, cur[k]))],
           err |-> ErrNil] : cur \in sortByCreatedAt(findByDate(from, to))}

\* ---------------------------------------------------------- specification

\* The writers' view: three caller threads race on one repository instance.
\* The steps of that instance's goroutine are left out: they write cfg,
\* cfgWithDefaults and the stream only, which no step of UpdateConfig reads.
WInst == {1}
\* nowFunc is pinned to one instant there, as in the repository's tests.
WNow == {[ms |-> 1, sub |-> 0]}

NextWriters ==
    \/ \E c \in Callers, i \in WInst : UpdateConfigNotStarted(c, i)
    \/ \E c \in Callers, i \in WInst : UpdateConfigGetLatestFails(c, i)
    \/ \E c \in Callers, i \in WInst, cand \in Candidates, now \in WNow :
          Cardinality(configs) < MaxVersion /\ UpdateConfigFirst(c, i, cand, now)
    \/ \E c \in Callers, i \in WInst, cand \in Candidates, now \in WNow :
          Cardinality(configs) < MaxVersion /\ UpdateConfigNext(c, i, cand, now)
    \/ \E c \in Callers : UpdateConfigInsert(c)
    \/ \E c \in Callers : UpdateConfigInsertFails(c)
    \/ \E i \in WInst : StartCreateIndexesFails(i)
    \/ \E i \in WInst : StartWatchFails(i)
    \/ \E i \in WInst : watchChanges(i)
    \/ \E i \in WInst : StartGetLatest(i)
    \/ \E i \in WInst : StartGetLatestFails(i)
    \/ \E i \in WInst : StartSetCfg(i)
    \/ \E i \in WInst : StartOverlay(i)
    \/ \E i \in WInst : StartFinish(i)

SpecWriters == Init /\ [][NextWriters]_vars

\* The replication view: two repository instances start and follow the
\* change stream while one caller thread writes through either of them.
RCallers == {1}

Next ==
    \/ \E c \in RCallers, i \in Inst : UpdateConfigNotStarted(c, i)
    \/ \E c \in RCallers, i \in Inst : UpdateConfigGetLatestFails(c, i)
    \/ \E c \in RCallers, i \in Inst, cand \in Candidates, now \in NowTimes :
          Cardinality(configs) < MaxVersion /\ UpdateConfigFirst(c, i, cand, now)
    \/ \E c \in RCallers, i \in Inst, cand \in Candidates, now \in NowTimes :
          Cardinality(configs) < MaxVersion /\ UpdateConfigNext(c, i, cand, now)
    \/ \E c \in RCallers : UpdateConfigInsert(c)
    \/ \E c \in RCallers : UpdateConfigInsertFails(c)
    \/ \E i \in Inst : StartCreateIndexesFails(i)
    \/ \E i \in Inst : StartWatchFails(i)
    \/ \E i \in Inst : watchChanges(i)
    \/ \E i \in Inst : StartGetLatest(i)
    \/ \E i \in Inst : StartGetLatestFails(i)
    \/ \E i \in Inst : StartSetCfg(i)
    \/ \E i \in Inst : StartOverlay(i)
    \/ \E i \in Inst : StartFinish(i)
    \/ \E i \in Inst : SubInsert(i)
    \/ \E i \in Inst : SubOverlay(i)
    \/ \E i \in Inst : SubAssign(i)

Spec == Init /\ [][Next]_vars

\* The life cycle view: one repository instance from Start to the end of its
\* goroutine, with the owner cancelling the context at any moment and one
\* caller thread writing.
LInst == {1}

NextShutdown ==
    \/ \E c \in RCallers, i \in LInst : UpdateConfigNotStarted(c, i)
    \/ \E c \in RCallers, i \in LInst : UpdateConfigGetLatestFails(c, i)
    \/ \E c \in RCallers, i \in LInst, cand \in Candidates, now \in WNow :
          Cardinality(configs) < MaxVersion /\ UpdateConfigFirst(c, i, cand, now)
    \/ \E c \in RCallers, i \in LInst, cand \in Candidates, now \in WNow :
          Cardinality(configs) < MaxVersion /\ UpdateConfigNext(c, i, cand, now)
    \/ \E c \in RCallers : UpdateConfigInsert(c)
    \/ \E c \in RCallers : UpdateConfigInsertFails(c)
    \/ \E i \in LInst : StartCreateIndexesFails(i)
    \/ \E i \in LInst : StartWatchFails(i)
    \/ \E i \in LInst : watchChanges(i)
    \/ \E i \in LInst : StartGetLatest(i)
    \/ \E i \in LInst : StartGetLatestFails(i)
    \/ \E i \in LInst : StartSetCfg(i)
    \/ \E i \in LInst : StartOverlay(i)
    \/ \E i \in LInst : StartFinish(i)
    \/ \E i \in LInst : SubInsert(i)
    \/ \E i \in LInst : SubOverlay(i)
    \/ \E i \in LInst : SubAssign(i)
    \/ \E i \in LInst : SubStop(i)
    \/ \E i \in LInst : SubNextFails(i)
    \/ \E i \in LInst : Cancel(i)

SpecShutdown == Init /\ [][NextShutdown]_vars

\* The steps of the goroutine launched by watchChanges.
Subscriber(i) == SubInsert(i) \/ SubOverlay(i) \/ SubAssign(i) \/ SubStop(i)

\* The Go scheduler runs a runnable goroutine eventually, and cs.Next returns
\* once an event is there or the context is cancelled.
FairShutdown == SpecShutdown /\ \A i \in LInst : WF_vars(Subscriber(i))

\* The startup view: two repository instances, each with its own caller
\* thread (caller c works through instance c), so that one instance can fail
\* to start while the other one writes.
SInst == {1, 2}
\* The instance whose goroutine is followed; the other one's goroutine writes
\* its own cache only.
SObserved == {1}

NextStartup ==
    \/ \E c \in SInst : UpdateConfigNotStarted(c, c)
    \/ \E c \in SInst : UpdateConfigGetLatestFails(c, c)
    \/ \E c \in SInst, cand \in Candidates, now \in WNow :
          Cardinality(configs) < MaxVersion /\ UpdateConfigFirst(c, c, cand, now)
    \/ \E c \in SInst, cand \in Candidates, now \in WNow :
          Cardinality(configs) < MaxVersion /\ UpdateConfigNext(c, c, cand, now)
    \/ \E c \in SInst : UpdateConfigInsert(c)
    \/ \E c \in SInst : UpdateConfigInsertFails(c)
    \/ \E i \in SInst : StartCreateIndexesFails(i)
    \/ \E i \in SInst : StartWatchFails(i)
    \/ \E i \in SInst : watchChanges(i)
    \/ \E i \in SInst : StartGetLatest(i)
    \/ \E i \in SInst : StartGetLatestFails(i)
    \/ \E i \in SInst : StartSetCfg(i)
    \/ \E i \in SInst : StartOverlay(i)
    \/ \E i \in SInst : StartFinish(i)
    \/ \E i \in SObserved : SubInsert(i)
    \/ \E i \in SObserved : SubOverlay(i)
    \/ \E i \in SObserved : SubAssign(i)

SpecStartup == Init /\ [][NextStartup]_vars

\* The compatibility view: an appConfigV0 instance and an appConfigV1
\* instance on the same collection; the caller writes through the first one.
CInst == {1} \cup V1Inst
CWriter == {1}

NextCompat ==
    \/ \E c \in RCallers, i \in CWriter : UpdateConfigNotStarted(c, i)
    \/ \E c \in RCallers, i \in CWriter : UpdateConfigGetLatestFails(c, i)
    \/ \E c \in RCallers, i \in CWriter, cand \in Candidates, now \in NowTimes :
          Cardinality(configs) < MaxVersion /\ UpdateConfigFirst(c, i, cand, now)
    \/ \E c \in RCallers, i \in CWriter, cand \in Candidates, now \in NowTimes :
          Cardinality(configs) < MaxVersion /\ UpdateConfigNext(c, i, cand, now)
    \/ \E c \in RCallers : UpdateConfigInsert(c)
    \/ \E c \in RCallers : UpdateConfigInsertFails(c)
    \/ \E i \in CInst : StartCreateIndexesFails(i)
    \/ \E i \in CInst : StartWatchFails(i)
    \/ \E i \in CInst : watchChanges(i)
    \/ \E i \in CInst : StartGetLatest(i)
    \/ \E i \in CInst : StartGetLatestFails(i)
    \/ \E i \in CInst : StartSetCfg(i)
    \/ \E i \in CInst : StartOverlay(i)
    \/ \E i \in CInst : StartFinish(i)
    \/ \E i \in CInst : SubInsert(i)
    \/ \E i \in CInst : SubOverlay(i)
    \/ \E i \in CInst : SubAssign(i)

SpecCompat == Init /\ [][NextCompat]_vars

\* The history view: one repository instance and one caller thread; the
\* readings of nowFunc differ and need not increase from one call to the next
\* (nowFunc is injectable, and the clock behind time.Now can be set back).
DNow == {[ms |-> 1, sub |-> 1], [ms |-> 2, sub |-> 0], [ms |-> 3, sub |-> 1]}

NextDates ==
    \/ \E c \in RCallers, i \in WInst : UpdateConfigNotStarted(c, i)
    \/ \E c \in RCallers, i \in WInst : UpdateConfigGetLatestFails(c, i)
    \/ \E c \in RCallers, i \in WInst, cand \in Candidates, now \in DNow :
          Cardinality(configs) < MaxVersion /\ UpdateConfigFirst(c, i, cand, now)
    \/ \E c \in RCallers, i \in WInst, cand \in Candidates, now \in DNow :
          Cardinality(configs) < MaxVersion /\ UpdateConfigNext(c, i, cand, now)
    \/ \E c \in RCallers : UpdateConfigInsert(c)
    \/ \E c \in RCallers : UpdateConfigInsertFails(c)
    \/ \E i \in WInst : StartCreateIndexesFails(i)
    \/ \E i \in WInst : StartWatchFails(i)
    \/ \E i \in WInst : watchChanges(i)
    \/ \E i \in WInst : StartGetLatest(i)
    \/ \E i \in WInst : StartGetLatestFails(i)
    \/ \E i \in WInst : StartSetCfg(i)
    \/ \E i \in WInst : StartOverlay(i)
    \/ \E i \in WInst : StartFinish(i)

SpecDates == Init /\ [][NextDates]_vars

\* The feed view: one repository instance and its caller thread, while a
\* client outside the repository updates, replaces and deletes documents of
\* the collection.  Documents are deleted there, so the cap is on the version
\* numbers.
FInst == {1}

BelowMaxVersion == \A d \in configs : d._id < MaxVersion

NextFeed ==
    \/ \E c \in RCallers, i \in FInst : UpdateConfigNotStarted(c, i)
    \/ \E c \in RCallers, i \in FInst : UpdateConfigGetLatestFails(c, i)
    \/ \E c \in RCallers, i \in FInst, cand \in Candidates, now \in WNow :
          BelowMaxVersion /\ UpdateConfigFirst(c, i, cand, now)
    \/ \E c \in RCallers, i \in FInst, cand \in Candidates, now \in WNow :
          BelowMaxVersion /\ UpdateConfigNext(c, i, cand, now)
    \/ \E c \in RCallers : UpdateConfigInsert(c)
    \/ \E c \in RCallers : UpdateConfigInsertFails(c)
    \/ \E op \in ExternalOps, d \in configs, bad \in BOOLEAN :
          ExternalChange(op, d, bad)
    \/ \E i \in FInst : StartCreateIndexesFails(i)
    \/ \E i \in FInst : StartWatchFails(i)
    \/ \E i \in FInst : watchChanges(i)
    \/ \E i \in FInst : StartGetLatest(i)
    \/ \E i \in FInst : StartGetLatestFails(i)
    \/ \E i \in FInst : StartSetCfg(i)
    \/ \E i \in FInst : StartOverlay(i)
    \/ \E i \in FInst : StartFinish(i)
    \/ \E i \in FInst : SubInsert(i)
    \/ \E i \in FInst : SubOther(i)
    \/ \E i \in FInst : SubDecodeFails(i)
    \/ \E i \in FInst : SubOverlay(i)
    \/ \E i \in FInst : SubAssign(i)

SpecFeed == Init /\ [][NextFeed]_vars

\* The retry view: caller 1 calls UpdateConfig on instance 1 with a valid
\* configuration and, as long as no call of its has succeeded, calls again;
\* its calls meet no storage error.  Callers 2 and 3 compete through the same
\* instance; the cap on versions bounds their commits only.
RetryCaller == 1
Rivals == {2, 3}
RetryCandidate == [name |-> "", duration |-> 1, time |-> "at"]

\* UpdateConfig has returned a record and no error to caller c.
Succeeded(c) == uc[c].returned /\ uc[c].ret.err = ErrNil

\* nowFunc's reading for a call of the retrying caller: millisecond 1 until
\* a call of its has returned ErrConcurrentUpdate, millisecond 2 for a call
\* made right after one.
AttemptNow ==
    IF uc[RetryCaller].outcome = "dup" THEN [ms |-> 2, sub |-> 0]
    ELSE [ms |-> 1, sub |-> 0]

NextRetry ==
    \/ ~Succeeded(RetryCaller)
          /\ UpdateConfigFirst(RetryCaller, 1, RetryCandidate, AttemptNow)
    \/ ~Succeeded(RetryCaller)
          /\ UpdateConfigNext(RetryCaller, 1, RetryCandidate, AttemptNow)
    \/ UpdateConfigInsert(RetryCaller)
    \/ \E c \in Rivals, i \in WInst : UpdateConfigNotStarted(c, i)
    \/ \E c \in Rivals, i \in WInst : UpdateConfigGetLatestFails(c, i)
    \/ \E c \in Rivals, i \in WInst, cand \in Candidates, now \in WNow :
          Cardinality(configs) < MaxVersion /\ UpdateConfigFirst(c, i, cand, now)
    \/ \E c \in Rivals, i \in WInst, cand \in Candidates, now \in WNow :
          Cardinality(configs) < MaxVersion /\ UpdateConfigNext(c, i, cand, now)
    \/ \E c \in Rivals : UpdateConfigInsert(c)
    \/ \E c \in Rivals : UpdateConfigInsertFails(c)
    \/ \E i \in WInst : StartCreateIndexesFails(i)
    \/ \E i \in WInst : StartWatchFails(i)
    \/ \E i \in WInst : watchChanges(i)
    \/ \E i \in WInst : StartGetLatest(i)
    \/ \E i \in WInst : StartGetLatestFails(i)
    \/ \E i \in WInst : StartSetCfg(i)
    \/ \E i \in WInst : StartOverlay(i)
    \/ \E i \in WInst : StartFinish(i)

SpecRetry == Init /\ [][NextRetry]_vars

\* The steps of the retrying caller.
Retry ==
    \/ ~Succeeded(RetryCaller)
          /\ UpdateConfigFirst(RetryCaller, 1, RetryCandidate, AttemptNow)
    \/ ~Succeeded(RetryCaller)
          /\ UpdateConfigNext(RetryCaller, 1, RetryCandidate, AttemptNow)
    \/ UpdateConfigInsert(RetryCaller)

\* The retrying caller keeps calling, and each of its calls runs to its
\* return.
FairRetry == SpecRetry /\ WF_vars(Retry)

\* The overlay view: copyAndSetDefaults applied by Start to its seed.  Start
\* of an appConfigV0 instance or of the appConfigV1 instance has opened the
\* stream, read its seed and assigned it to s.cfg; the seed is the zero
\* record on the empty collection or the decoded document of a collection
\* holding one committed document.
OInst == {1} \cup V1Inst

\* The documents UpdateConfig can have committed.
SeedDocs ==
    {bsonMarshal(Versioned(v, by, at, c)) :
        v \in 1..MaxVersion, by \in {By(1), By(2)}, at \in NowTimes,
        c \in {a \in appConfigV0 : validate(a) = ErrNil}}

InitOverlay ==
    \E i \in OInst, docs \in {{}} \cup {{d} : d \in SeedDocs} :
        LET seed == IF docs = {} THEN Versioned(0, "", ZeroTime, ZeroConfigOf(i))
                    ELSE Decode(i, CHOOSE d \in docs : TRUE)
        IN /\ configs = docs
           /\ stream = [j \in Repos |-> <<>>]
           /\ watching = [j \in Repos |-> j = i]
           /\ ctxDone = [j \in Repos |-> FALSE]
           /\ doneClosed = [j \in Repos |-> FALSE]
           /\ startPc = [j \in Repos |-> IF j = i THEN "cfgSet" ELSE "new"]
           /\ latest = [j \in Repos |-> IF j = i /\ docs # {} THEN seed ELSE Nil]
           /\ cfg = [j \in Repos |-> IF j = i THEN seed ELSE Nil]
           /\ cfgWithDefaults = [j \in Repos |-> Nil]
           /\ started = [j \in Repos |-> FALSE]
           /\ subPc = [j \in Repos |-> IF j = i THEN "next" ELSE "off"]
           /\ subTmp = [j \in Repos |-> Nil]
           /\ startTmp = [j \in Repos |-> Nil]
           /\ sawInsert = [j \in Repos |-> FALSE]
           /\ uc = [c \in Callers |-> IdleCall]
           /\ succLog = <<>>

NextOverlay ==
    \/ \E i \in OInst : StartOverlay(i)
    \/ \E i \in OInst : StartFinish(i)

SpecOverlay == InitOverlay /\ [][NextOverlay]_vars

\* ================================================================ claims

\* The insert of caller c's last call reached the server.
Reached(c) == uc[c].returned /\ uc[c].outcome \in {"ok", "dup"}

\* The last calls of c and d read the same latest version and both tried to
\* insert its successor.
Racing(c, d) == c # d /\ Reached(c) /\ Reached(d) /\ uc[c].read = uc[d].read

\* The documents committed with version v.
DocsAt(v) == {x \in configs : x._id = v}

\* C1, as stated: of any two UpdateConfig calls that read the same latest
\* version k and both insert version k+1, exactly one insert succeeds, the
\* other call returns ErrConcurrentUpdate, and the store holds exactly one
\* record with version k+1.
C1_ExactlyOneOfTwo ==
    \A c, d \in Callers :
        Racing(c, d) =>
            /\ (uc[c].outcome = "ok") # (uc[d].outcome = "ok")
            /\ uc[c].outcome # "ok" => uc[c].ret.err = ErrConcurrentUpdate
            /\ uc[d].outcome # "ok" => uc[d].ret.err = ErrConcurrentUpdate
            /\ Cardinality(DocsAt(uc[c].read + 1)) = 1

\* C1, amended: of any two such calls at most one insert succeeds, and none
\* only when a third writer committed version k+1; each call whose insert did
\* not succeed returns a nil record and ErrConcurrentUpdate; the store holds
\* exactly one record with version k+1, the one of the writer whose insert
\* succeeded.
C1_AtMostOneOfTwo ==
    \A c, d \in Callers :
        Racing(c, d) =>
            LET v == uc[c].read + 1
            IN /\ ~(uc[c].outcome = "ok" /\ uc[d].outcome = "ok")
               /\ \A x \in {c, d} :
                     /\ uc[x].outcome # "ok" =>
                            uc[x].ret = [rec |-> Nil, err |-> ErrConcurrentUpdate]
                     /\ uc[x].outcome = "ok" => DocsAt(v) = {bsonMarshal(uc[x].new)}
               /\ Cardinality(DocsAt(v)) = 1
               /\ (uc[c].outcome # "ok" /\ uc[d].outcome # "ok") =>
                     \E e \in Callers \ {c, d} :
                         \A x \in DocsAt(v) : x.updated_by = By(e)

\* C1's case: two calls raced for the same version, one won, the other was
\* refused.
C1_Witness ==
    \E c, d \in Callers :
        /\ Racing(c, d)
        /\ uc[c].outcome = "ok"
        /\ uc[d].outcome = "dup"
        /\ uc[c].read = 1

\* C2: the committed versions are exactly 1..n for some n >= 0, and no two
\* committed records share a version.
C2_Gapless ==
    /\ Versions = 1 .. Cardinality(Versions)
    /\ \A d, e \in configs : d._id = e._id => d = e

\* C2's case: the collection is full after calls that were refused as
\* concurrent and as invalid.
C2_Witness ==
    /\ Cardinality(configs) = MaxVersion
    /\ \E c \in Callers : uc[c].outcome = "dup"
    /\ \E c \in Callers : uc[c].verr # ErrNil

\* C3: the n-th UpdateConfig call that succeeds returns version n (a failed
\* call consumes no version number).
C3_NthSuccessReturnsN == \A n \in 1 .. Len(succLog) : succLog[n] = n

\* The defaults overlay of the synthetic zero record Start builds when the
\* collection is empty.
ZeroOverlay ==
    Versioned(0, "", ZeroTime, [ZeroConfig EXCEPT !.name = DefaultName])

\* Instance b has nothing left to do: Start returned, the goroutine waits in
\* cs.Next and no event is pending.
Quiescent(b) ==
    /\ startPc[b] = "done"
    /\ watching[b]
    /\ subPc[b] = "next"
    /\ stream[b] = <<>>

\* C4 (eventual convergence), as what must hold once instance b has nothing
\* left to do: if an UpdateConfig call returned version k without error and k
\* is the latest committed version, GetLatestVersion on b returns the record
\* with version k.
C4_ConvergedWhenQuiescent ==
    \A c \in Callers, b \in Inst :
        ( /\ uc[c].returned
          /\ uc[c].ret.err = ErrNil
          /\ \A d \in configs : d._id <= uc[c].ret.rec.version
          /\ Quiescent(b) )
        => /\ GetLatestVersion(b).err = ErrNil
           /\ GetLatestVersion(b).rec # Nil
           /\ GetLatestVersion(b).rec.version = uc[c].ret.rec.version

\* C5: the record GetLatestVersion returns on a started instance is the
\* defaults overlay of the synthetic zero record (the seed read having found
\* nothing) or the defaults overlay of a committed record.
C5_CacheIsCommitted ==
    \A i \in Inst :
        started[i] =>
            \/ latest[i] = Nil /\ GetLatestVersion(i).rec = ZeroOverlay
            \/ \E d \in configs :
                  copyAndSetDefaults(bsonDecode(d)) =
                      [val |-> GetLatestVersion(i).rec, err |-> ErrNil]

\* C6: until Start has completed its seed step, GetLatestVersion and GetConfig
\* return a nil value and ErrNotStarted.
C6_PreStartGuard ==
    \A i \in Inst :
        startPc[i] # "done" =>
            /\ GetLatestVersion(i) = [rec |-> Nil, err |-> ErrNotStarted]
            /\ GetConfig(i) = [val |-> Nil, err |-> ErrNotStarted]

\* C6's case: Start is in progress while the goroutine has already written
\* the cache.
C6_Witness ==
    \E i \in Inst :
        /\ startPc[i] \in {"watching", "seeded", "cfgSet", "overlaid"}
        /\ sawInsert[i]
        /\ cfgWithDefaults[i] # Nil

\* C7: when Config.Update returns an error, UpdateConfig returns a nil record
\* and that error, attempts no insert, and the collection is unchanged.
C7_ValidationBlocksPersistence ==
    [][ \A c \in Callers :
           (uc'[c] # uc[c] /\ uc'[c].verr # ErrNil) =>
               /\ uc'[c].ret = [rec |-> Nil, err |-> uc'[c].verr]
               /\ uc'[c].returned
               /\ uc'[c].pc = "idle"
               /\ uc'[c].outcome = "none"
               /\ configs' = configs ]_vars

\* C7's case: a candidate was rejected against an existing record.
C7_Witness ==
    \E c \in Callers :
        /\ uc[c].returned
        /\ uc[c].read > 0
        /\ uc[c].verr = ErrValidation
        /\ uc[c].ret.err = ErrValidation

\* The last call of c found no committed record and went on to validate.
FirstWrite(c) == uc[c].read = 0 /\ uc[c].input # Nil

\* C8: a call that finds no committed record invokes Config.Update with the
\* candidate as receiver and as input; an insert is attempted only after that
\* succeeded, and it is the insert of the candidate as version 1; when it
\* fails the call returns without an insert and the collection is unchanged.
C8_FirstWriteSelfValidation ==
    /\ [](\A c \in Callers :
             FirstWrite(c) =>
                 /\ uc[c].recv = uc[c].input
                 /\ uc[c].verr # ErrNil =>
                        uc[c].pc = "idle" /\ uc[c].outcome = "none"
                 /\ (uc[c].pc = "insert" \/ uc[c].outcome # "none") =>
                        /\ uc[c].verr = ErrNil
                        /\ uc[c].new.version = 1
                        /\ uc[c].new.config = uc[c].input)
    /\ [][ \A c \in Callers :
              (FirstWrite(c)' /\ uc'[c] # uc[c] /\ uc'[c].verr # ErrNil) =>
                  configs' = configs ]_vars

\* C8's case: one first write was inserted as version 1, another was rejected
\* by its self-validation.
C8_Witness ==
    /\ \E c \in Callers : FirstWrite(c) /\ uc[c].outcome = "ok"
    /\ \E c \in Callers : FirstWrite(c) /\ uc[c].verr # ErrNil

\* The version bounds queried.
QueryBounds == 0 .. MaxVersion + 1

\* C9: on a started instance ListVersionedConfigs(from, to) returns, without
\* error and in ascending version order, one record (decoded, with the
\* defaults overlay) for each committed record with from <= version < to and
\* nothing else; it is the empty sequence when no record is in the range.
C9_RangeQuery ==
    \A i \in Inst, from \in QueryBounds, to \in QueryBounds :
        started[i] =>
            LET r == ListVersionedConfigs(i, from, to)
                want == {d \in configs : from <= d._id /\ d._id < to}
            IN /\ r.err = ErrNil
               /\ Len(r.val) = Cardinality(want)
               /\ {r.val[k] : k \in 1 .. Len(r.val)} =
                      {defaultsSet(bsonDecode(d)) : d \in want}
               /\ \A k \in 1 .. Len(r.val) - 1 :
                      r.val[k].version < r.val[k + 1].version
               /\ want = {} => r.val = <<>>

\* C9's case: with versions 1 and 2 committed, [1,3) has two records, [1,2)
\* one and [3,4) none.
C9_Witness ==
    /\ started[1]
    /\ Versions = {1, 2}
    /\ Len(ListVersionedConfigs(1, 1, 3).val) = 2
    /\ Len(ListVersionedConfigs(1, 1, 2).val) = 1
    /\ ListVersionedConfigs(1, 3, 4).val = <<>>

\* C10: when the seed read found no record, from Start's return until the
\* goroutine handles a first insert GetLatestVersion returns version 0, an
\* empty updatedBy, the zero createdAt and the zero configuration with its
\* defaults.
C10_ZeroRecordBeforeFirstInsert ==
    \A i \in Inst :
        (startPc[i] = "done" /\ latest[i] = Nil /\ ~sawInsert[i]) =>
            GetLatestVersion(i) =
                [rec |-> Versioned(0, "", ZeroTime,
                                   [name |-> DefaultName, duration |-> 0,
                                    time |-> "zero"]),
                 err |-> ErrNil]

\* C10's case: an instance started on an empty collection, a record has been
\* committed since, and its goroutine has not handled the event yet.
C10_Witness ==
    \E i \in Inst :
        /\ startPc[i] = "done"
        /\ latest[i] = Nil
        /\ ~sawInsert[i]
        /\ stream[i] # <<>>

\* The last call of c invoked Config.Update.
Merged(c) == uc[c].input # Nil

\* C11: defaults never persist.  Config.Update is invoked on the candidate
\* itself (first write) or on the configuration decoded from the committed
\* record the call read, never on a defaults overlay; the document a
\* successful call stored is the BSON form of Update's result, with no
\* default in it, also when the record the call returned carries the default;
\* and the step that returns the overlay adds that document to the
\* collection and nothing else.
C11_DefaultsNeverPersist ==
    /\ [](/\ \A d \in configs : d.app_config.name # DefaultName
          /\ \A c \in Callers :
                /\ (Merged(c) /\ uc[c].read = 0) => uc[c].recv = uc[c].input
                /\ (Merged(c) /\ uc[c].read > 0) =>
                       \E d \in configs :
                           d._id = uc[c].read /\ uc[c].recv = bsonDecode(d).config
                /\ uc[c].outcome = "ok" =>
                       /\ uc[c].new.config = Update(uc[c].recv, uc[c].input).recv
                       /\ bsonMarshal(uc[c].new) \in configs
                       /\ bsonMarshal(uc[c].new).app_config = uc[c].new.config)
    /\ [][ \A c \in Callers :
              (uc[c].pc = "insert" /\ uc'[c].outcome = "ok") =>
                  configs' = configs \cup {bsonMarshal(uc[c].new)} ]_vars

\* C11's case: a call merged a candidate without a name into a committed
\* record, returned the new version with the default name, and the document
\* stored for that version has no name.
C11_Witness ==
    \E c \in Callers :
        /\ uc[c].outcome = "ok"
        /\ uc[c].read > 0
        /\ uc[c].ret.err = ErrNil
        /\ uc[c].ret.rec.config.name = DefaultName
        /\ \E d \in configs :
              d._id = uc[c].ret.rec.version /\ d.app_config.name = ""

\* C12: committed records are immutable.  No step of Start, of the goroutine
\* or of UpdateConfig removes or changes a document of the collection; the
\* collection changes only by an UpdateConfig call inserting one new document
\* whose version is the one that call read plus 1.
C12_CommittedRecordsImmutable ==
    [][ /\ configs \subseteq configs'
        /\ configs' # configs =>
              \E c \in Callers :
                  /\ uc[c].pc = "insert"
                  /\ configs' \ configs = {bsonMarshal(uc[c].new)}
                  /\ uc[c].new.version = uc[c].read + 1 ]_vars

\* C12's case: two versions are committed, and an instance that started on
\* the first has handled the insert event of the second.
C12_Witness ==
    /\ Versions = {1, 2}
    /\ \E i \in Inst :
          /\ startPc[i] = "done"
          /\ latest[i] # Nil
          /\ sawInsert[i]
          /\ cfgWithDefaults[i] # Nil
          /\ cfgWithDefaults[i].version = 2

\* C13: once Start has returned successfully on an instance, GetLatestVersion
\* and GetConfig on it return no error, in every reachable state.
C13_SteadyReadsNeverFail ==
    \A i \in Inst :
        startPc[i] = "done" =>
            /\ GetLatestVersion(i).err = ErrNil
            /\ GetConfig(i).err = ErrNil

\* C14: after the context passed to Start is cancelled, the goroutine
\* eventually leaves its loop, the change stream is closed and the done
\* channel is closed (the goroutine being scheduled fairly).
C14_GracefulShutdown ==
    \A i \in LInst :
        ctxDone[i] ~> (subPc[i] = "stopped" /\ ~watching[i] /\ doneClosed[i])

\* C14's case: the context was cancelled after the goroutine had handled an
\* insert, and the done channel is closed.
C14_Witness ==
    \E i \in LInst :
        /\ ctxDone[i]
        /\ sawInsert[i]
        /\ subPc[i] = "stopped"
        /\ doneClosed[i]

\* The instants queried by date.
QueryTimes == {[ms |-> m, sub |-> u] : m \in 0 .. 4, u \in {0, 1}}

\* Every read operation on instance i answers ErrNotStarted.
ReadsRefused(i) ==
    /\ GetLatestVersion(i) = [rec |-> Nil, err |-> ErrNotStarted]
    /\ GetConfig(i) = [val |-> Nil, err |-> ErrNotStarted]
    /\ \A from, to \in QueryBounds :
          ListVersionedConfigs(i, from, to).err = ErrNotStarted
    /\ \A from, to \in QueryTimes :
          \A r \in ListVersionedConfigsByDate(i, from, to) : r.err = ErrNotStarted

\* Start on instance i ended because createIndexes, Watch or the seed read
\* failed.
StartFailed(i) == startPc[i] \in {"failedIndexes", "failedWatch", "failedSeed"}

\* C15: when createIndexes fails, the change stream cannot be opened or the
\* seed read fails for a reason other than not-found, Start returns an error
\* and no done channel, the instance is not started from then on, the read
\* operations keep answering ErrNotStarted and every UpdateConfig call through
\* the instance returns ErrNotStarted without touching the collection.
C15_StartupFailuresFatal ==
    /\ [](\A i \in SInst :
             StartFailed(i) =>
                 /\ StartReturned(i).err # ErrNil
                 /\ StartReturned(i).done = Nil
                 /\ ~started[i]
                 /\ ReadsRefused(i))
    /\ [][ \A i \in SInst :
              (StartFailed(i) /\ uc'[i] # uc[i]) =>
                  /\ uc'[i] = Return(IdleCall, Nil, ErrNotStarted)
                  /\ configs' = configs ]_vars
    /\ [][ \A i \in SInst : StartFailed(i) => StartFailed(i)' ]_vars

\* C15's case: the seed read of instance 1 failed after its goroutine was
\* launched; the goroutine has since put a committed record into the cache,
\* and an UpdateConfig call through the instance was refused.
C15_Witness ==
    /\ startPc[1] = "failedSeed"
    /\ cfgWithDefaults[1] # Nil
    /\ uc[1].returned
    /\ uc[1].ret.err = ErrNotStarted
    /\ configs # {}

\* C16: while Start has not completed its seed step on an instance,
\* ListVersionedConfigs and ListVersionedConfigsByDate answer ErrNotStarted,
\* and an UpdateConfig call through the instance returns ErrNotStarted at
\* once: it records no read of the collection and no Config.Update, and the
\* collection is unchanged.
C16_NotStartedRefusesWritesAndLists ==
    /\ [](\A i \in SInst :
             startPc[i] # "done" =>
                 /\ \A from, to \in QueryBounds :
                       ListVersionedConfigs(i, from, to) =
                           [val |-> <<>>, err |-> ErrNotStarted]
                 /\ \A from, to \in QueryTimes :
                       ListVersionedConfigsByDate(i, from, to) =
                           {[val |-> <<>>, err |-> ErrNotStarted]})
    /\ [][ \A i \in SInst :
              (startPc[i] # "done" /\ uc'[i] # uc[i]) =>
                  /\ uc'[i].ret = [rec |-> Nil, err |-> ErrNotStarted]
                  /\ uc'[i].returned
                  /\ uc'[i].pc = "idle"
                  /\ uc'[i].read = 0
                  /\ uc'[i].input = Nil
                  /\ uc'[i].new = Nil
                  /\ uc'[i].outcome = "none"
                  /\ configs' = configs ]_vars

\* C16's case: while Start is between its seed read and its last step on
\* instance 1, with records committed through the other instance, an
\* UpdateConfig call through instance 1 was refused.
C16_Witness ==
    /\ startPc[1] \in {"seeded", "cfgSet", "overlaid"}
    /\ configs # {}
    /\ uc[1].returned
    /\ uc[1].ret.err = ErrNotStarted

\* C17: no automatic retry.  A call reads the latest record once: its first
\* step either returns or fixes the version it read and the document it will
\* insert, without writing.  It attempts one insert: the step that follows
\* ends the call, whatever the outcome.  When that insert meets the duplicate
\* key, the call returns a nil record and ErrConcurrentUpdate in that very
\* step and the collection is unchanged.
C17_NoAutomaticRetry ==
    [][ \A c \in Callers :
           /\ (uc[c].pc = "idle" /\ uc'[c] # uc[c]) =>
                 /\ configs' = configs
                 /\ \/ uc'[c].pc = "idle" /\ uc'[c].returned /\ uc'[c].outcome = "none"
                    \/ uc'[c].pc = "insert" /\ ~uc'[c].returned
           /\ (uc[c].pc = "insert" /\ uc'[c] # uc[c]) =>
                 /\ uc'[c].pc = "idle"
                 /\ uc'[c].returned
                 /\ uc'[c].read = uc[c].read
                 /\ uc'[c].new = uc[c].new
                 /\ uc'[c].outcome \in {"ok", "dup", "ioerr"}
           /\ (uc[c].pc = "insert" /\ uc'[c] # uc[c]
                 /\ IsDuplicateKey(bsonMarshal(uc[c].new))
                 /\ uc'[c].outcome # "ioerr") =>
                 /\ uc'[c].outcome = "dup"
                 /\ uc'[c].ret = [rec |-> Nil, err |-> ErrConcurrentUpdate]
                 /\ configs' = configs ]_vars

\* C17's case: a call that read version 1 was refused with
\* ErrConcurrentUpdate because another writer had committed version 2, which
\* is still the latest.
C17_Witness ==
    \E c \in Callers :
        /\ uc[c].returned
        /\ uc[c].outcome = "dup"
        /\ uc[c].read = 1
        /\ uc[c].ret.err = ErrConcurrentUpdate
        /\ Versions = {1, 2}
        /\ \A d \in DocsAt(2) : d.updated_by # By(c)

\* C18: all views of one committed version agree.  When an UpdateConfig call
\* returned version k without error, then on every started instance the
\* element of ListVersionedConfigs for version k equals the record the call
\* returned, and so does the record of GetLatestVersion once the instance's
\* cache holds version k.
C18_AllViewsAgree ==
    \A c \in Callers, b \in Inst :
        (uc[c].returned /\ uc[c].outcome = "ok" /\ uc[c].ret.err = ErrNil
           /\ started[b]) =>
            LET k == uc[c].ret.rec.version
                l == ListVersionedConfigs(b, k, k + 1)
            IN /\ l.err = ErrNil
               /\ Len(l.val) = 1
               /\ l.val[1] = uc[c].ret.rec
               /\ (cfgWithDefaults[b] # Nil /\ cfgWithDefaults[b].version = k) =>
                      GetLatestVersion(b).rec = uc[c].ret.rec

\* The default instance i declares for Name.
OwnDefault(i) == IF i \in V1Inst THEN DefaultNameV1 ELSE DefaultName

\* Instance i is started and its cache holds committed version k.
Shows(i, k) ==
    /\ started[i]
    /\ cfgWithDefaults[i] # Nil
    /\ cfgWithDefaults[i].version = k

\* C19: per-instance defaults.  When an appConfigV0 instance and an
\* appConfigV1 instance both show committed version k, GetLatestVersion on
\* each returns the version, updatedBy and createdAt of the committed
\* document and its configuration fields the instance's type has, a name the
\* document leaves empty being filled with the instance's own default; the
\* document in the collection is the one UpdateConfig wrote, and no step
\* that computes or installs an overlay changes the collection.
C19_PerInstanceDefaults ==
    /\ [](\A k \in 1 .. MaxVersion + 1 :
             (\A i \in CInst : Shows(i, k)) =>
                 \E d \in configs :
                     /\ d._id = k
                     /\ \A i \in CInst :
                           LET r == GetLatestVersion(i)
                           IN /\ r.err = ErrNil
                              /\ r.rec.version = d._id
                              /\ r.rec.updatedBy = d.updated_by
                              /\ r.rec.createdAt = d.created_at
                              /\ r.rec.config.time = d.app_config.time
                              /\ r.rec.config.name =
                                     IF d.app_config.name = ""
                                     THEN OwnDefault(i)
                                     ELSE d.app_config.name
                              /\ i \notin V1Inst =>
                                     r.rec.config.duration = d.app_config.duration
                              /\ i \in V1Inst => r.rec.config.age = 0)
    /\ [][ (cfgWithDefaults' # cfgWithDefaults \/ subTmp' # subTmp
              \/ startTmp' # startTmp) => configs' = configs ]_vars

\* C19's case: both instances show version 1, committed without a name; one
\* returns the name "bobby", the other "john", and the document still has no
\* name.
C19_Witness ==
    /\ \A i \in CInst : Shows(i, 1)
    /\ GetLatestVersion(1).rec.config.name = DefaultName
    /\ \A i \in V1Inst : GetLatestVersion(i).rec.config.name = DefaultNameV1
    /\ \E d \in configs : d._id = 1 /\ d.app_config.name = ""

\* What a by-date result r must be for the set `want` of documents: no error,
\* one decoded record with defaults per document of want and nothing else, in
\* ascending createdAt order; the empty sequence when want is empty.
IsByDateResult(i, r, want) ==
    /\ r.err = ErrNil
    /\ Len(r.val) = Cardinality(want)
    /\ {r.val[k] : k \in 1 .. Len(r.val)} =
           {defaultsSet(Decode(i, d)) : d \in want}
    /\ \A k \in 1 .. Len(r.val) - 1 :
           ~Before(r.val[k + 1].createdAt, r.val[k].createdAt)
    /\ want = {} => r.val = <<>>

C21_CacheFromOneSnapshot ==
    \A i \in Inst :
        (Quiescent(i) /\ started[i] /\ cfgWithDefaults[i] # Nil) =>
            cfgWithDefaults[i] = copyAndSetDefaults(cfg[i]).val

\* The goroutine takes the event at the head of instance i's stream.
Takes(i) ==
    /\ subPc[i] = "next"
    /\ stream[i] # <<>>
    /\ stream'[i] = Tail(stream[i])

\* C22: when the subscriber takes an update, a replace or a delete event
\* that decodes, neither cached value changes, the subscription stays open
\* and the loop is back in cs.Next with the events that followed; when it
\* takes an insert event, the record of that event replaces the cached one.
C22_NonInsertEventsIgnored ==
    [][\A i \in FInst :
          Takes(i) =>
              LET ev == Head(stream[i])
              IN /\ (ev.operationType # "insert"
                        /\ (ev.fullDocument = Nil \/ Decodable(ev.fullDocument))) =>
                        /\ cfg'[i] = cfg[i]
                        /\ cfgWithDefaults'[i] = cfgWithDefaults[i]
                        /\ subPc'[i] = "next"
                        /\ watching'[i]
                        /\ ~doneClosed'[i]
                 /\ ev.operationType = "insert" =>
                        /\ cfg'[i] = Decode(i, ev.fullDocument)
                        /\ subPc'[i] = "overlay"]_vars

\* C22's case: the instance subscribed on the empty collection; versions 1
\* and 2 were written and version 1 was then deleted by another client.  The
\* inserts and the delete have been taken, the stream is open, and the cache
\* holds version 2 as it was inserted.
C22_Witness ==
    /\ startPc[1] = "done" /\ started[1] /\ latest[1] = Nil
    /\ subPc[1] = "next" /\ stream[1] = <<>>
    /\ watching[1] /\ ~doneClosed[1]
    /\ Versions = {2}
    /\ \E d \in configs : d.updated_by = By(1) /\ cfg[1] = bsonDecode(d)
    /\ cfgWithDefaults[1] = copyAndSetDefaults(cfg[1]).val
    /\ cfgWithDefaults[1] # Nil

\* C23: a failure on one change-feed event is isolated to that event.  When
\* the goroutine takes an event that does not decode, or an insert event
\* whose record has no defaults overlay, and when it finishes such an insert
\* event, both cached values are the ones held before the event and the loop
\* goes on in cs.Next with the stream open.
C23_EventFailureIsolated ==
    [][\A i \in FInst :
          /\ Takes(i) =>
                LET ev == Head(stream[i])
                IN IF ev.fullDocument = Nil THEN TRUE
                   ELSE IF ~Decodable(ev.fullDocument)
                   THEN /\ cfg'[i] = cfg[i]
                        /\ cfgWithDefaults'[i] = cfgWithDefaults[i]
                        /\ subPc'[i] = "next"
                        /\ watching'[i] /\ ~doneClosed'[i]
                   ELSE (/\ ev.operationType = "insert"
                         /\ copyAndSetDefaults(Decode(i, ev.fullDocument)).err # ErrNil) =>
                            /\ cfg'[i] = cfg[i]
                            /\ cfgWithDefaults'[i] = cfgWithDefaults[i]
                            /\ watching'[i] /\ ~doneClosed'[i]
          /\ (subPc[i] = "assign" /\ subPc'[i] = "next" /\ subTmp[i].err # ErrNil) =>
                /\ cfgWithDefaults'[i] = cfgWithDefaults[i]
                /\ watching'[i] /\ ~doneClosed'[i]]_vars

\* C24: the subscriber stops only because of cancellation: the channel
\* returned by Start is never closed while the context passed to Start is
\* uncancelled.
C24_StopsOnlyOnCancel ==
    \A i \in LInst : doneClosed[i] => ctxDone[i]

\* Start's seed read of instance i has been taken.
SeedTaken(i) == startPc[i] \in {"seeded", "cfgSet", "overlaid", "done", "failedDefaults"}

\* C25: the subscription is open when the seed read is taken and from then
\* on; every record committed after the seed read is appended to the
\* instance's stream as an insert event, and an event leaves the stream only
\* when the goroutine takes it, an insert event by installing its record.
C25_NoCommitMissedAfterSeed ==
    /\ [](\A i \in SInst : SeedTaken(i) => watching[i])
    /\ [][\A i \in SInst :
             /\ SeedTaken(i) =>
                   \A d \in configs' \ configs :
                       stream'[i] = Append(stream[i], InsertEvent(d))
             /\ (SeedTaken(i) /\ stream'[i] # stream[i] /\ configs' = configs) =>
                   /\ Takes(i)
                   /\ cfg'[i] = Decode(i, Head(stream[i]).fullDocument)]_vars

\* C25's case: the seed read of instance 1 found version 1, version 2 was
\* committed afterwards, and its insert event has been taken by the
\* goroutine.
C25_Witness ==
    /\ startPc[1] = "done"
    /\ latest[1] # Nil /\ latest[1].version = 1
    /\ \E d \in configs : d._id = 2 /\ cfg[1] = bsonDecode(d)
    /\ stream[1] = <<>>

\* C26: no step of an UpdateConfig call, successful or not, changes the
\* cached record or the cached overlay of any instance; these change only in
\* a step of Start or of the subscriber goroutine of the instance.
C26_UpdateNeverWritesCache ==
    [][/\ uc' # uc => (cfg' = cfg /\ cfgWithDefaults' = cfgWithDefaults)
       /\ \A i \in SInst :
             (cfg'[i] # cfg[i] \/ cfgWithDefaults'[i] # cfgWithDefaults[i]) =>
                 /\ startPc'[i] # startPc[i] \/ subPc'[i] # subPc[i]
                 /\ uc' = uc /\ configs' = configs]_vars

\* C26's case: UpdateConfig on instance 1 has returned version 2 while
\* GetLatestVersion on instance 1 still returns version 1.
C26_Witness ==
    /\ uc[1].returned /\ uc[1].ret.err = ErrNil /\ uc[1].ret.rec.version = 2
    /\ started[1]
    /\ GetLatestVersion(1).err = ErrNil
    /\ GetLatestVersion(1).rec # Nil
    /\ GetLatestVersion(1).rec.version = 1

\* The highest committed version (0: none).
LatestCommitted ==
    IF configs = {} THEN 0 ELSE CHOOSE v \in Versions : \A w \in Versions : w <= v

\* C27: UpdateConfig works against the store.  Its read takes the version
\* and the base configuration of the latest committed record, whatever the
\* cache of the instance holds; when validation has passed, the insert meets
\* no storage error and nobody has committed since the read, the call
\* returns the record of version latest + 1 without an error and that
\* version is committed; and a call returns ErrConcurrentUpdate only when
\* the version it attempted is committed already.
C27_WritesAgainstStore ==
    [][\A c \in SInst :
          /\ (uc[c].pc = "idle" /\ uc'[c].pc = "insert") =>
                /\ uc'[c].read = LatestCommitted
                /\ uc'[c].new.version = LatestCommitted + 1
                /\ configs # {} =>
                      \E d \in configs : /\ d._id = LatestCommitted
                                         /\ uc'[c].recv = bsonDecode(d).config
          /\ (uc[c].pc = "insert" /\ uc'[c].pc = "idle"
                /\ uc'[c].outcome # "ioerr"
                /\ LatestCommitted = uc[c].read) =>
                /\ uc'[c].ret.err = ErrNil
                /\ uc'[c].ret.rec # Nil
                /\ uc'[c].ret.rec.version = uc[c].read + 1
                /\ \E d \in configs' \ configs : d._id = uc[c].read + 1
          /\ (uc[c].pc = "insert" /\ uc'[c].pc = "idle"
                /\ uc'[c].ret.err = ErrConcurrentUpdate) =>
                \E d \in configs : d._id = uc[c].new.version]_vars

C30_CacheVersionMonotonic ==
    [][\A i \in Inst :
          /\ (cfg[i] # Nil /\ cfg'[i] # Nil) => cfg'[i].version >= cfg[i].version
          /\ (cfgWithDefaults[i] # Nil /\ cfgWithDefaults'[i] # Nil) =>
                cfgWithDefaults'[i].version >= cfgWithDefaults[i].version]_vars

\* C29: the defaults overlay is a pure, idempotent transform.  For every
\* record x it is applied to, x itself is left as it was, the result is x
\* with exactly the fields set that declare a default and hold their zero
\* value in x (the name), every other field as in x, and the overlay of the
\* result is the result.
C29_OverlayPureIdempotent ==
    [][\A i \in OInst :
          (startPc[i] = "cfgSet" /\ startPc'[i] = "overlaid") =>
              LET x == cfg[i]
                  r == startTmp'[i]
              IN /\ cfg'[i] = x
                 /\ r.err = ErrNil
                 /\ r.val = [x EXCEPT !.config.name =
                                         IF @ = "" THEN OwnDefault(i) ELSE @]
                 /\ copyAndSetDefaults(r.val) = r]_vars

\* C29 for the records the JSON copy succeeds on: x is left as it was, the
\* result is x with the name set to the declared default when it is empty
\* in x and every other field as in x, and the overlay of the result is the
\* result.  When the copy fails (json.Marshal rejects x) the overlay returns
\* no value and an error, and x is left as it was.
C29_OverlayOfCopyable ==
    [][\A i \in OInst :
          (startPc[i] = "cfgSet" /\ startPc'[i] = "overlaid") =>
              LET x == cfg[i]
                  r == startTmp'[i]
              IN /\ cfg'[i] = x
                 /\ IF jsonMarshal(x).err # ErrNil
                    THEN r = [val |-> Nil, err |-> jsonMarshal(x).err]
                    ELSE /\ r.err = ErrNil
                         /\ r.val = [x EXCEPT !.config.name =
                                                 IF @ = "" THEN OwnDefault(i) ELSE @]
                         /\ copyAndSetDefaults(r.val) = r]_vars

\* C29's case: the appConfigV1 instance has computed the overlay of a
\* committed record whose name is empty; the overlay carries the default and
\* the record still has the empty name.
C29_Witness ==
    \E i \in V1Inst :
        /\ startPc[i] = "overlaid"
        /\ cfg[i].version = 1 /\ cfg[i].config.name = ""
        /\ startTmp[i].err = ErrNil
        /\ startTmp[i].val.config.name = DefaultNameV1
        /\ startTmp[i].val.config.time = cfg[i].config.time

\* Start of instance i has returned an error.
StartErred(i) ==
    startPc[i] \in {"failedIndexes", "failedWatch", "failedSeed", "failedDefaults"}

\* C31: a failed Start leaves nothing running.  Whenever Start has returned
\* an error, the goroutine of the instance was never launched or has left
\* its loop with the stream closed, and no later step writes the cached
\* record or the cached overlay of the instance.
C31_FailedStartLeavesNothingRunning ==
    /\ [](\A i \in SInst :
             StartErred(i) => (subPc[i] \in {"off", "stopped"} /\ ~watching[i]))
    /\ [][\A i \in SInst :
             StartErred(i) =>
                 (cfg'[i] = cfg[i] /\ cfgWithDefaults'[i] = cfgWithDefaults[i])]_vars

\* C32: whenever GetLatestVersion returns a nil error, the record it returns
\* is not nil and carries a configuration that is not nil, so that GetConfig
\* returns that configuration without dereferencing a missing record.
C32_NilErrorMeansRecord ==
    \A i \in Inst :
        GetLatestVersion(i).err = ErrNil =>
            /\ GetLatestVersion(i).rec # Nil
            /\ GetLatestVersion(i).rec.config # Nil
            /\ GetConfig(i) = [val |-> GetLatestVersion(i).rec.config, err |-> ErrNil]

====
